---- MODULE Spec2Model ----
(***************************************************************************)
(* The peer-to-peer overlay wiring of core/src/p2p/mod.rs (P2PManager::new)*)
(* as a state machine: the discovery event handler, the request handler    *)
(* closure, the sync broadcaster task and the heartbeat task, over an      *)
(* abstract transport (sd_p2p::Manager).                                   *)
(***************************************************************************)
EXTENDS Integers, Sequences, FiniteSets, TLC

\* ------------------------------------------------------------------ bounds
MaxOps == 2        \* operations the data layer enqueues in one run
MaxTime == 13       \* clock ticks observed (one tick is 500 ms)
MaxEvents == 2     \* transport events emitted in one run
MaxStreams == 2    \* inbound unicast streams in one run
NumPeers == 2      \* remote peers on the network
NumLibraries == 2  \* libraries (datasets) known to the data layer

\* ------------------------------------------------- program constants (ticks)
GraceTicks == 1     \* sleep(Duration::from_millis(500))
IntervalTicks == 6  \* sleep(Duration::from_secs(3))

Peers == 1..NumPeers
LibraryIds == 1..NumLibraries
Streams == 1..MaxStreams

\* ------------------------------------------------------------- wire codec
\* A payload is a sequence of bytes.  rmp_serde writes a unit variant as its
\* name (a fixstr: 0xa0 + length, then the characters), a newtype variant as
\* a one-entry map from the name to the value (0x81), a tuple as an array
\* (0x90 + length).  A Uuid is abstracted to one byte.
StrPing == <<164, 80, 105, 110, 103>>
StrGetLibrary == <<170, 71, 101, 116, 76, 105, 98, 114, 97, 114, 121>>
StrNone == <<164, 78, 111, 110, 101>>
StrLibrary == <<167, 76, 105, 98, 114, 97, 114, 121>>
StrId == <<162, 105, 100>>

Ping == [tag |-> "Ping", id |-> 0]
GetLibrary(l) == [tag |-> "GetLibrary", id |-> l]
Requests == {Ping} \cup {GetLibrary(l) : l \in LibraryIds}

RespNone == [tag |-> "None", id |-> 0]
RespLibrary(l) == [tag |-> "Library", id |-> l]
Responses == {RespNone} \cup {RespLibrary(l) : l \in LibraryIds}

\* rmp_serde::to_vec(&Request)
EncodeRequest(r) ==
    IF r.tag = "Ping" THEN StrPing
    ELSE <<129>> \o StrGetLibrary \o <<r.id>>

\* rmp_serde::from_slice::<Request>(&data)
DecodeRequest(data) ==
    IF data = StrPing THEN [ok |-> TRUE, val |-> Ping]
    ELSE IF /\ Len(data) = Len(StrGetLibrary) + 2
            /\ SubSeq(data, 1, Len(StrGetLibrary) + 1) = <<129>> \o StrGetLibrary
            /\ data[Len(data)] \in LibraryIds
         THEN [ok |-> TRUE, val |-> GetLibrary(data[Len(data)])]
         ELSE [ok |-> FALSE, val |-> Ping]

\* rmp_serde::to_vec(&Response)
EncodeResponse(r) ==
    IF r.tag = "None" THEN StrNone
    ELSE <<129>> \o StrLibrary \o <<r.id>>

\* rmp_serde::from_slice::<Response>(&data)
DecodeResponse(data) ==
    IF data = StrNone THEN [ok |-> TRUE, val |-> RespNone]
    ELSE IF /\ Len(data) = Len(StrLibrary) + 2
            /\ SubSeq(data, 1, Len(StrLibrary) + 1) = <<129>> \o StrLibrary
            /\ data[Len(data)] \in LibraryIds
         THEN [ok |-> TRUE, val |-> RespLibrary(data[Len(data)])]
         ELSE [ok |-> FALSE, val |-> RespNone]

\* A closure that sends every response through the codec, Response::None too.
ReplyBytesEncodeAll(resp) == EncodeResponse(resp)

\* The reply the request handler closure returns for a handler response:
\* Response::None => Ok(vec![]), resp => Ok(rmp_serde::to_vec(&resp).unwrap())
ReplyBytes(resp) ==
    IF resp.tag = "None" THEN <<>> ELSE EncodeResponse(resp)

\* An item of the ingress channel: (Uuid, CRDTOperation), the operation
\* identified by the sequence number the producer gave it.
OpItem(l, n) == <<l, n>>

\* rmp_serde::to_vec(&op): the operation's fields unnamed, as an array.
EncodeOpUnnamed(item) == <<146, item[1], 145, item[2]>>

\* rmp_serde::to_vec_named(&op.1): the operation without its library id.
EncodeOpNoLibrary(item) == <<129>> \o StrId \o <<item[2]>>

\* rmp_serde::to_vec_named(&op) of the (Uuid, CRDTOperation) tuple: an
\* array of two, the library id and the operation as a map of named fields.
EncodeOp(item) == <<146, item[1], 129>> \o StrId \o <<item[2]>>

IsOpPayload(data) == Len(data) = 7 /\ data[1] = 146
OpIdOf(data) == data[7]
OpLibOf(data) == data[2]

\* rmp_serde::from_slice::<(Uuid, CRDTOperation)>(&data), as a receiving
\* peer decodes a broadcast operation.
DecodeOp(data) ==
    IF /\ Len(data) = 7
       /\ data[1] = 146
       /\ data[2] \in LibraryIds
       /\ SubSeq(data, 3, 6) = <<129>> \o StrId
       /\ data[7] \in 1..MaxOps
    THEN [ok |-> TRUE, val |-> <<data[2], data[7]>>]
    ELSE [ok |-> FALSE, val |-> <<0, 0>>]

PingPayload == EncodeRequest(Ping)

\* Inbound unicast payloads: every encoded request, and malformed ones (an
\* empty payload, a truncated name).
Malformed == {<<>>, <<164, 80>>}
RawPayloads == {EncodeRequest(r) : r \in Requests} \cup Malformed


\* ------------------------------------------------------------------ state
VARIABLES
    p2p_rx,      \* the operation ingress channel: (library, operation) items
    produced,    \* how many operations the data layer has enqueued
    txOpen,      \* TRUE while a sender of the ingress channel exists
    syncPc,      \* sync broadcaster task: "recv", "sending", "finished", "dead"
    syncOp,      \* the item the broadcaster took last (its local `op`)
    hbPc,        \* heartbeat task: "spawned", "grace", "sleep", "sending", "dead"
    hbWake,      \* the tick at which the heartbeat's current sleep ends
    now,         \* the clock, in ticks
    broadcasts,  \* the payloads handed to manager.broadcast, in call order
    lastFan,     \* the fan-out of the broadcast call that completed last
    conns,       \* open connections per peer (the transport's table)
    events,      \* transport events not yet given to the event handler
    emitted,     \* how many events the transport has emitted
    dials,       \* dial attempts per peer
    lastDial,    \* the dial attempted last: its peer, whether a connection
                 \* was open already, whether the dial succeeded, and whether
                 \* it retried the peer whose dial had just failed
    streams,     \* inbound unicast streams and their handler tasks
    hbStart,     \* the tick at which the heartbeat task began to run
    pingTimes,   \* the ticks at which the heartbeat called broadcast
    shutdown,    \* TRUE once the process's shutdown signal is raised
    configName,  \* the display name in the node's configuration
    lastMeta     \* the PeerMetadata the metadata closure returned last

vars == <<p2p_rx, produced, txOpen, syncPc, syncOp, hbPc, hbWake, now,
          broadcasts, lastFan, conns, events, emitted, dials, lastDial, streams,
          hbStart, pingTimes, shutdown, configName, lastMeta>>

syncVars == <<p2p_rx, produced, txOpen, syncPc, syncOp>>
hbVars == <<hbPc, hbWake, hbStart, pingTimes>>
envVars == <<shutdown, configName, lastMeta>>
discVars == <<events, emitted, dials, lastDial>>

Connected == {p \in Peers : conns[p] > 0}

NoFan == [src |-> "none", payload |-> <<>>, peers |-> {},
          attempts |-> [p \in Peers |-> 0], delivered |-> {}, err |-> FALSE]

\* The broadcaster's `op` outside an iteration of its loop.
NoOp == <<0, 0>>

NoDial == [peer |-> 0, had |-> FALSE, ok |-> FALSE, retry |-> FALSE]

\* The display names a node can be configured with; "123" is the literal of
\* the metadata closure.
NodeNames == {"node", "laptop", "123"}
DefaultName == "node"

NoMeta == [provided |-> FALSE, name |-> "", os |-> "", version |-> "", cfg |-> ""]

NoStream == [pc |-> "none", raw |-> <<>>, req |-> Ping, handlerOk |-> TRUE,
             replies |-> <<>>]

Init ==
    /\ p2p_rx = <<>>
    /\ produced = 0
    /\ txOpen = TRUE
    /\ syncPc = "recv"
    /\ syncOp = NoOp
    /\ hbPc = "spawned"
    /\ hbWake = 0
    /\ now = 0
    /\ broadcasts = <<>>
    /\ lastFan = NoFan
    /\ conns = [p \in Peers |-> 0]
    /\ events = <<>>
    /\ emitted = 0
    /\ dials = [p \in Peers |-> 0]
    /\ lastDial = NoDial
    /\ streams = [s \in Streams |-> NoStream]
    /\ hbStart = 0
    /\ pingTimes = <<>>
    /\ shutdown = FALSE
    /\ configName = DefaultName
    /\ lastMeta = NoMeta

\* -------------------------------------------------------------- transport
\* Manager::broadcast: one delivery attempt to every connected peer; the
\* peers in `failed` do not receive the payload, the others do.
Fanout(src, payload, peers, failed, err) ==
    [src |-> src, payload |-> payload, peers |-> peers,
     attempts |-> [p \in Peers |-> IF p \in peers THEN 1 ELSE 0],
     delivered |-> peers \ failed, err |-> err]

\* A transport that opens a connection on every successful dial.
DialNoDedup(table, p, ok) ==
    IF ~ok THEN table ELSE [table EXCEPT ![p] = @ + 1]

\* DiscoveredPeer::dial: opens a connection unless one is open already; a
\* dial that fails leaves the table as it was.
Dial(table, p, ok) ==
    IF table[p] > 0 \/ ~ok THEN table ELSE [table EXCEPT ![p] = 1]

\* A peer's connection is lost.
PeerDisconnected(p) ==
    /\ conns[p] > 0
    /\ conns' = [conns EXCEPT ![p] = 0]
    /\ UNCHANGED envVars
    /\ UNCHANGED <<syncVars, hbVars, now, broadcasts, lastFan, discVars, streams>>

\* The clock advances by one tick.
Tick ==
    /\ now < MaxTime
    /\ now' = now + 1
    /\ UNCHANGED envVars
    /\ UNCHANGED <<syncVars, hbVars, broadcasts, lastFan, conns, discVars, streams>>

\* ------------------------------------------------------ operation ingress
\* The data layer sends (library, operation) on the channel; the send fails
\* once the receiver is gone.
Enqueue(l) ==
    /\ txOpen
    /\ produced < MaxOps
    /\ syncPc \notin {"dead", "finished"}
    /\ p2p_rx' = Append(p2p_rx, OpItem(l, produced + 1))
    /\ produced' = produced + 1
    /\ UNCHANGED envVars
    /\ UNCHANGED <<txOpen, syncPc, syncOp, hbVars, now, broadcasts, lastFan,
                   conns, discVars, streams>>

\* Every sender of the channel is dropped.
CloseIngress ==
    /\ txOpen
    /\ txOpen' = FALSE
    /\ UNCHANGED envVars
    /\ UNCHANGED <<p2p_rx, produced, syncPc, syncOp, hbVars, now, broadcasts,
                   lastFan, conns, discVars, streams>>

\* --------------------------------------------------------- sync broadcaster
\* A broadcaster that takes the newest item of the channel instead of the oldest.
BroadcasterRecvLifo ==
    /\ syncPc = "recv"
    /\ p2p_rx # <<>>
    /\ syncOp' = p2p_rx[Len(p2p_rx)]
    /\ p2p_rx' = SubSeq(p2p_rx, 1, Len(p2p_rx) - 1)
    /\ broadcasts' = Append(broadcasts, EncodeOp(p2p_rx[Len(p2p_rx)]))
    /\ syncPc' = "sending"
    /\ UNCHANGED envVars
    /\ UNCHANGED <<produced, txOpen, hbVars, now, lastFan, conns, discVars, streams>>

\* A broadcaster that drops the item behind the one it takes.
BroadcasterRecvSkip ==
    /\ syncPc = "recv"
    /\ p2p_rx # <<>>
    /\ syncOp' = Head(p2p_rx)
    /\ p2p_rx' = IF Len(p2p_rx) > 1 THEN Tail(Tail(p2p_rx)) ELSE Tail(p2p_rx)
    /\ broadcasts' = Append(broadcasts, EncodeOp(Head(p2p_rx)))
    /\ syncPc' = "sending"
    /\ UNCHANGED envVars
    /\ UNCHANGED <<produced, txOpen, hbVars, now, lastFan, conns, discVars, streams>>

\* A broadcaster that hands every item to manager.broadcast twice.
BroadcasterRecvTwice ==
    /\ syncPc = "recv"
    /\ p2p_rx # <<>>
    /\ syncOp' = Head(p2p_rx)
    /\ p2p_rx' = Tail(p2p_rx)
    /\ broadcasts' = broadcasts \o <<EncodeOp(Head(p2p_rx)), EncodeOp(Head(p2p_rx))>>
    /\ syncPc' = "sending"
    /\ UNCHANGED envVars
    /\ UNCHANGED <<produced, txOpen, hbVars, now, lastFan, conns, discVars, streams>>

\* while let Some(op) = p2p_rx.recv().await { manager.broadcast(to_vec_named(&op)) ...
BroadcasterRecv ==
    /\ syncPc = "recv"
    /\ p2p_rx # <<>>
    /\ syncOp' = Head(p2p_rx)
    /\ p2p_rx' = Tail(p2p_rx)
    /\ broadcasts' = Append(broadcasts, EncodeOp(Head(p2p_rx)))
    /\ syncPc' = "sending"
    /\ UNCHANGED envVars
    /\ UNCHANGED <<produced, txOpen, hbVars, now, lastFan, conns, discVars, streams>>

\* recv() returns None: the channel is closed and empty, the loop ends.
BroadcasterEnd ==
    /\ syncPc = "recv"
    /\ p2p_rx = <<>>
    /\ ~txOpen
    /\ syncPc' = "finished"
    /\ UNCHANGED envVars
    /\ UNCHANGED <<p2p_rx, produced, txOpen, syncOp, hbVars, now, broadcasts,
                   lastFan, conns, discVars, streams>>

\* ... .await.unwrap(): the broadcast completes; an Err panics the task.
BroadcasterDone ==
    /\ syncPc = "sending"
    /\ \E failed \in SUBSET Connected, err \in BOOLEAN :
          /\ lastFan' = Fanout("sync", EncodeOp(syncOp), Connected, failed, err)
          /\ syncPc' = IF err THEN "dead" ELSE "recv"
    /\ syncOp' = NoOp
    /\ UNCHANGED envVars
    /\ UNCHANGED <<p2p_rx, produced, txOpen, hbVars, now, broadcasts,
                   conns, discVars, streams>>

\* ------------------------------------------------------------- heartbeat
\* sleep(Duration::from_millis(500)) is started.
HeartbeatBegin ==
    /\ hbPc = "spawned"
    /\ hbWake' = now + GraceTicks
    /\ hbStart' = now
    /\ hbPc' = "grace"
    /\ UNCHANGED pingTimes
    /\ UNCHANGED envVars
    /\ UNCHANGED <<syncVars, now, broadcasts, lastFan, conns, discVars, streams>>

\* A heartbeat whose loop broadcasts before it sleeps.
HeartbeatOnlineNoSleep ==
    /\ hbPc = "grace"
    /\ now >= hbWake
    /\ hbWake' = now
    /\ hbPc' = "sleep"
    /\ UNCHANGED <<hbStart, pingTimes>>
    /\ UNCHANGED envVars
    /\ UNCHANGED <<syncVars, now, broadcasts, lastFan, conns, discVars, streams>>

\* The grace sleep ends, the addresses are logged, the loop's first
\* sleep(Duration::from_secs(3)) is started.
HeartbeatOnline ==
    /\ hbPc = "grace"
    /\ now >= hbWake
    /\ hbWake' = now + IntervalTicks
    /\ hbPc' = "sleep"
    /\ UNCHANGED <<hbStart, pingTimes>>
    /\ UNCHANGED envVars
    /\ UNCHANGED <<syncVars, now, broadcasts, lastFan, conns, discVars, streams>>

\* The interval sleep ends: manager.broadcast(to_vec(&Request::Ping)) is called.
HeartbeatPing ==
    /\ hbPc = "sleep"
    /\ now >= hbWake
    /\ broadcasts' = Append(broadcasts, PingPayload)
    /\ pingTimes' = Append(pingTimes, now)
    /\ hbPc' = "sending"
    /\ UNCHANGED envVars
    /\ UNCHANGED <<syncVars, hbWake, hbStart, now, lastFan, conns, discVars, streams>>

\* ... .await.unwrap(): an Err panics the task, otherwise the next sleep starts.
HeartbeatDone ==
    /\ hbPc = "sending"
    /\ \E failed \in SUBSET Connected, err \in BOOLEAN :
          /\ lastFan' = Fanout("ping", PingPayload, Connected, failed, err)
          /\ hbPc' = IF err THEN "dead" ELSE "sleep"
          /\ hbWake' = IF err THEN hbWake ELSE now + IntervalTicks
    /\ UNCHANGED <<hbStart, pingTimes>>
    /\ UNCHANGED envVars
    /\ UNCHANGED <<syncVars, now, broadcasts, conns, discVars, streams>>

\* ------------------------------------------------------ discovery reactor
PeerDiscovered(p) == [kind |-> "PeerDiscovered", peer |-> p]
OtherEvent == [kind |-> "Other", peer |-> 0]
Events == {PeerDiscovered(p) : p \in Peers} \cup {OtherEvent}

\* The transport emits an event.
EmitEvent(ev) ==
    /\ emitted < MaxEvents
    /\ events' = Append(events, ev)
    /\ emitted' = emitted + 1
    /\ UNCHANGED envVars
    /\ UNCHANGED <<syncVars, hbVars, now, broadcasts, lastFan, conns, dials,
                   lastDial, streams>>

\* The dial attempted last was for peer p and failed.
DialFailed(p) == lastDial.peer = p /\ ~lastDial.ok /\ ~lastDial.had

\* An event handler that a failed dial ends (event.dial(..).await.unwrap()):
\* it takes no event once a dial has failed.
HandleEventUnwrap ==
    /\ \A q \in Peers : ~DialFailed(q)
    /\ events # <<>>
    /\ events' = Tail(events)
    /\ LET ev == Head(events) IN
         IF ev.kind = "PeerDiscovered"
         THEN /\ dials' = [dials EXCEPT ![ev.peer] = @ + 1]
              /\ \E ok \in BOOLEAN :
                    /\ conns' = Dial(conns, ev.peer, ok)
                    /\ lastDial' = [peer |-> ev.peer, had |-> conns[ev.peer] > 0,
                                    ok |-> ok, retry |-> DialFailed(ev.peer)]
         ELSE UNCHANGED <<dials, conns, lastDial>>
    /\ UNCHANGED envVars
    /\ UNCHANGED <<syncVars, hbVars, now, broadcasts, lastFan, emitted, streams>>

\* An event handler that dials only peers it holds no connection to.
HandleEventDedup ==
    /\ events # <<>>
    /\ events' = Tail(events)
    /\ LET ev == Head(events) IN
         IF ev.kind = "PeerDiscovered" /\ conns[ev.peer] = 0
         THEN /\ dials' = [dials EXCEPT ![ev.peer] = @ + 1]
              /\ \E ok \in BOOLEAN :
                    /\ conns' = Dial(conns, ev.peer, ok)
                    /\ lastDial' = [peer |-> ev.peer, had |-> conns[ev.peer] > 0,
                                    ok |-> ok, retry |-> DialFailed(ev.peer)]
         ELSE UNCHANGED <<dials, conns, lastDial>>
    /\ UNCHANGED envVars
    /\ UNCHANGED <<syncVars, hbVars, now, broadcasts, lastFan, emitted, streams>>

\* The event handler closure: match event { PeerDiscovered(event) =>
\* event.dial(&manager).await, event => println!(..) }
HandleEvent ==
    /\ events # <<>>
    /\ events' = Tail(events)
    /\ LET ev == Head(events) IN
         IF ev.kind = "PeerDiscovered"
         THEN /\ dials' = [dials EXCEPT ![ev.peer] = @ + 1]
              /\ \E ok \in BOOLEAN :
                    /\ conns' = Dial(conns, ev.peer, ok)
                    /\ lastDial' = [peer |-> ev.peer, had |-> conns[ev.peer] > 0,
                                    ok |-> ok, retry |-> DialFailed(ev.peer)]
         ELSE UNCHANGED <<dials, conns, lastDial>>
    /\ UNCHANGED envVars
    /\ UNCHANGED <<syncVars, hbVars, now, broadcasts, lastFan, emitted, streams>>

\* ------------------------------------------------------ request dispatcher
\* Request::handle against the library manager: Ping answers Response::None;
\* a library query answers the library or fails.
HandleResults(req) ==
    IF req.tag = "Ping"
    THEN {[ok |-> TRUE, resp |-> RespNone]}
    ELSE {[ok |-> TRUE, resp |-> RespLibrary(req.id)],
          [ok |-> FALSE, resp |-> RespNone]}

\* An inbound unicast payload arrives; the closure is called with it on a
\* task of its own.
StreamOpen(s, data) ==
    /\ streams[s].pc = "none"
    /\ \A t \in Streams : t < s => streams[t].pc # "none"
    /\ streams' = [streams EXCEPT ![s] = [@ EXCEPT !.pc = "called", !.raw = data]]
    /\ UNCHANGED envVars
    /\ UNCHANGED <<syncVars, hbVars, now, broadcasts, lastFan, conns, discVars>>

\* A dispatcher that decodes a request only while no other request is
\* waiting on its handler.
StreamDecodeSerial(s) ==
    /\ streams[s].pc = "called"
    /\ \A t \in Streams : streams[t].pc # "handling"
    /\ LET d == DecodeRequest(streams[s].raw) IN
         streams' = [streams EXCEPT ![s] =
            IF d.ok THEN [@ EXCEPT !.pc = "handling", !.req = d.val]
                    ELSE [@ EXCEPT !.pc = "panicked"]]
    /\ UNCHANGED envVars
    /\ UNCHANGED <<syncVars, hbVars, now, broadcasts, lastFan, conns, discVars>>

\* let req = rmp_serde::from_slice::<Request>(&data).unwrap();
\* then req.handle(&library_manager) is awaited.
StreamDecode(s) ==
    /\ streams[s].pc = "called"
    /\ LET d == DecodeRequest(streams[s].raw) IN
         streams' = [streams EXCEPT ![s] =
            IF d.ok THEN [@ EXCEPT !.pc = "handling", !.req = d.val]
                    ELSE [@ EXCEPT !.pc = "panicked"]]
    /\ UNCHANGED envVars
    /\ UNCHANGED <<syncVars, hbVars, now, broadcasts, lastFan, conns, discVars>>

\* match req.handle(..).await.unwrap() { Response::None => Ok(vec![]),
\*                                       resp => Ok(to_vec(&resp).unwrap()) }
StreamHandled(s) ==
    /\ streams[s].pc = "handling"
    /\ \E r \in HandleResults(streams[s].req) :
         streams' = [streams EXCEPT ![s] =
            IF r.ok
            THEN [@ EXCEPT !.pc = "returned",
                           !.replies = Append(@, [kind |-> "Ok",
                                                  resp |-> r.resp,
                                                  bytes |-> ReplyBytes(r.resp)])]
            ELSE [@ EXCEPT !.pc = "panicked", !.handlerOk = FALSE]]
    /\ UNCHANGED envVars
    /\ UNCHANGED <<syncVars, hbVars, now, broadcasts, lastFan, conns, discVars>>

\* ------------------------------------------------------ metadata provider
\* The name the metadata closure puts in the record: the literal "123"
\* (config.name.clone() is commented out).
MetadataName(cfgName) == "123"

\* The node's display name is changed in its configuration.
RenameNode(n) ==
    /\ n # configName
    /\ configName' = n
    /\ UNCHANGED <<shutdown, lastMeta>>
    /\ UNCHANGED <<syncVars, hbVars, now, broadcasts, lastFan, conns, discVars, streams>>

\* The transport calls the metadata closure: PeerMetadata { name, operating_system, version }.
ProvideMetadata ==
    /\ lastMeta' = [provided |-> TRUE, name |-> MetadataName(configName),
                    os |-> "get_os", version |-> "CARGO_PKG_VERSION",
                    cfg |-> configName]
    /\ UNCHANGED <<shutdown, configName>>
    /\ UNCHANGED <<syncVars, hbVars, now, broadcasts, lastFan, conns, discVars, streams>>

\* --------------------------------------------------------------- shutdown
\* The process's shutdown signal is raised.  No task of P2PManager::new
\* reads it ("TODO: proper shutdown").
RaiseShutdown ==
    /\ ~shutdown
    /\ shutdown' = TRUE
    /\ UNCHANGED <<configName, lastMeta>>
    /\ UNCHANGED <<syncVars, hbVars, now, broadcasts, lastFan, conns, discVars, streams>>

\* The libraries a peer is a member of: peer p holds the libraries 1..p.
PeerLibraries(p) == {l \in LibraryIds : l <= p}

\* ---------------------------------------------------------- specification
NextBroadcaster ==
    \/ \E l \in LibraryIds : Enqueue(l)
    \/ BroadcasterRecv
    \/ BroadcasterDone

NextSync ==
    \/ NextBroadcaster
    \/ CloseIngress
    \/ BroadcasterEnd

NextHeartbeat ==
    \/ Tick
    \/ HeartbeatBegin
    \/ HeartbeatOnline
    \/ HeartbeatPing
    \/ HeartbeatDone

NextDiscovery ==
    \/ \E ev \in Events : EmitEvent(ev)
    \/ HandleEvent
    \/ \E p \in Peers : PeerDisconnected(p)

NextDispatch ==
    \/ \E s \in Streams, data \in RawPayloads : StreamOpen(s, data)
    \/ \E s \in Streams : StreamDecode(s)
    \/ \E s \in Streams : StreamHandled(s)

NextMetadata ==
    \/ \E n \in NodeNames : RenameNode(n)
    \/ ProvideMetadata

Next ==
    \/ NextSync \/ NextHeartbeat \/ NextDiscovery \/ NextDispatch
    \/ NextMetadata \/ RaiseShutdown

Spec == Init /\ [][Next]_vars


\* The sync broadcaster and the heartbeat, no peer connected.
SpecSync == Init /\ [][NextSync \/ NextHeartbeat]_vars

\* The same under the runtime's scheduling: a task that can take a step
\* eventually takes it.
FairSync ==
    /\ SpecSync
    /\ WF_vars(BroadcasterRecv)
    /\ WF_vars(BroadcasterDone)
    /\ WF_vars(BroadcasterEnd)

\* The event handler closure and the transport's connection table, and the
\* sync broadcaster over the changing set of connected peers.
SpecFanout == Init /\ [][NextSync \/ NextDiscovery]_vars

\* The request handler closure alone.
SpecDispatch == Init /\ [][NextDispatch]_vars

\* The request handler tasks beside the sync broadcaster's loop.
SpecConcurrent == Init /\ [][NextBroadcaster \/ NextDispatch]_vars

\* The metadata closure beside the discovery events it is advertised with.
SpecMetadata == Init /\ [][NextMetadata \/ NextDiscovery]_vars

\* The two spawned tasks and the shutdown signal, under the runtime's
\* scheduling: the sync broadcaster takes a step whenever it can.
FairShutdown ==
    /\ Init /\ [][NextSync \/ NextHeartbeat \/ RaiseShutdown]_vars
    /\ WF_vars(BroadcasterRecv)
    /\ WF_vars(BroadcasterDone)
    /\ WF_vars(BroadcasterEnd)

\* ----------------------------------------------------------------- claims
\* The positions of `broadcasts` that hold an encoded operation.
OpCalls == {i \in DOMAIN broadcasts : IsOpPayload(broadcasts[i])}
\* The calls of manager.broadcast made with payload `data`.
CallsWith(data) == {i \in DOMAIN broadcasts : broadcasts[i] = data}
\* Operation n has been handed to manager.broadcast.
Handed(n) == \E i \in OpCalls : OpIdOf(broadcasts[i]) = n

\* C1: operations are handed to manager.broadcast in the order they were
\* enqueued (the producer numbers them 1, 2, 3, ... as it enqueues them), also
\* when Ping broadcasts of the heartbeat come in between.
C1_OrderPreserved ==
    \A i, j \in OpCalls :
        i < j => OpIdOf(broadcasts[i]) < OpIdOf(broadcasts[j])

\* Every operation of the run was handed over, with a Ping between two of them.
C1_Witness ==
    /\ Cardinality(OpCalls) = MaxOps
    /\ \E i, j, k \in DOMAIN broadcasts :
          /\ i < j /\ j < k
          /\ i \in OpCalls /\ k \in OpCalls
          /\ broadcasts[j] = PingPayload

\* C2: every operation enqueued on the ingress channel is eventually handed
\* to manager.broadcast, whatever happened to the broadcasts before it.
C2_EveryOpBroadcast ==
    \A n \in 1..MaxOps : (produced >= n) ~> Handed(n)

\* C3: the broadcast of one operation makes exactly one delivery attempt to
\* each connected peer (one call of manager.broadcast for the operation, one
\* attempt per connected peer in it, none to others), and a failed delivery
\* to one peer leaves the attempt and the delivery to every other peer alone.
C3_FanoutPerPeer ==
    lastFan.src = "sync" =>
        /\ Cardinality(CallsWith(lastFan.payload)) = 1
        /\ \A p \in Peers :
              lastFan.attempts[p] = IF p \in lastFan.peers THEN 1 ELSE 0
        /\ lastFan.delivered \subseteq lastFan.peers
        /\ \A k \in lastFan.peers \ lastFan.delivered :
              \A j \in lastFan.peers \ {k} : lastFan.attempts[j] = 1

\* An operation was fanned out to two connected peers; the delivery to one
\* failed, the other received it.
C3_Witness ==
    /\ lastFan.src = "sync"
    /\ Cardinality(lastFan.peers) = 2
    /\ Cardinality(lastFan.delivered) = 1

\* C4: a send failure reported by manager.broadcast is not fatal to the sync
\* broadcaster: the task is never dead, so operations enqueued afterwards are
\* still dequeued.
C4_SendFailureNonFatal ==
    syncPc # "dead"


\* The handler task of stream s is over: the closure returned or panicked.
Over(s) == streams[s].pc \in {"returned", "panicked"}
\* The payload of stream s has been through from_slice.
Decoded(s) == streams[s].pc \in {"handling", "returned", "panicked"}

\* C5: a stream whose payload decodes to a Request ends with exactly one
\* terminal outcome (a response payload or an explicit error), never none and
\* never two, also when the handler fails.
C5_ExactlyOneOutcome ==
    \A s \in Streams :
        /\ Len(streams[s].replies) <= 1
        /\ (Over(s) /\ DecodeRequest(streams[s].raw).ok)
              => Len(streams[s].replies) = 1

\* C6: a payload that does not decode to a Request makes the closure return
\* an error (Err) for that stream.
C6_DecodeErrorReturned ==
    \A s \in Streams :
        (Decoded(s) /\ ~DecodeRequest(streams[s].raw).ok)
           => /\ streams[s].pc = "returned"
              /\ streams[s].replies # <<>>
              /\ streams[s].replies[1].kind = "Err"

\* C7: a handler error is turned into an error outcome of the closure (a
\* typed error response, or an Err that closes the stream); the handling task
\* does not panic.
C7_HandlerErrorConverted ==
    \A s \in Streams :
        ~streams[s].handlerOk
           => /\ streams[s].pc = "returned"
              /\ Len(streams[s].replies) = 1

\* C8: while a request waits on its handler, every other stream can take its
\* next step (be opened, decoded, answered) and the sync broadcaster can take
\* and broadcast an operation.
C8_SlowHandlerBlocksNothing ==
    \A s \in Streams :
        streams[s].pc = "handling" =>
            /\ \A t \in Streams \ {s} :
                  /\ (streams[t].pc = "none" /\ \A u \in Streams : u < t => streams[u].pc # "none")
                        => ENABLED (\E data \in RawPayloads : StreamOpen(t, data))
                  /\ streams[t].pc = "called" => ENABLED StreamDecode(t)
                  /\ streams[t].pc = "handling" => ENABLED StreamHandled(t)
            /\ (syncPc = "recv" /\ p2p_rx # <<>>) => ENABLED BroadcasterRecv
            /\ syncPc = "sending" => ENABLED BroadcasterDone

\* The first request still waits on its handler; the second, which arrived
\* after it, has been answered, and an operation has been broadcast.
C8_Witness ==
    /\ streams[1].pc = "handling"
    /\ streams[2].pc = "returned"
    /\ Len(streams[2].replies) = 1
    /\ lastFan.src = "sync"

\* C9: the event handler dials on a PeerDiscovered event and on nothing else:
\* each step that takes an event off the queue adds exactly one dial attempt
\* for the event's peer when the event is PeerDiscovered, whatever the
\* connection table holds, and no step changes the dial attempts otherwise.
C9_DialPerDiscovery ==
    [][LET taken == Len(events') < Len(events) IN
       \A p \in Peers :
          dials'[p] = dials[p] +
             (IF taken /\ Head(events).kind = "PeerDiscovered" /\ Head(events).peer = p
              THEN 1 ELSE 0)]_vars

\* A peer that was connected already was dialed again.
C9_Witness ==
    \E p \in Peers : dials[p] >= 2 /\ lastDial.peer = p /\ lastDial.had

\* C10: no peer has more than one open connection, also after a repeated
\* PeerDiscovered event for a connected peer.
C10_AtMostOneConnection ==
    \A p \in Peers : conns[p] <= 1

\* A connected peer was discovered again and its dial succeeded; it still
\* has its connection.
C10_Witness ==
    \E p \in Peers : lastDial.peer = p /\ lastDial.had /\ lastDial.ok /\ conns[p] = 1


\* C11: a failed dial does not end the event handler: while the dial
\* attempted last has failed, the handler can still take the next event, and
\* taking a PeerDiscovered event for the same peer dials that peer again.
C11_DialFailureNotFatal ==
    \A p \in Peers :
        (DialFailed(p) /\ events # <<>>) =>
            /\ ENABLED HandleEvent
            /\ Head(events) = PeerDiscovered(p) =>
                  ~ENABLED (HandleEvent /\ dials'[p] # dials[p] + 1)

\* A peer whose dial had just failed was discovered again and dialed again.
C11_Witness ==
    \E p \in Peers : lastDial.peer = p /\ lastDial.retry /\ dials[p] >= 2


\* C12: a failed heartbeat broadcast does not stop the heartbeat task: the
\* task is never dead, so it goes on to its next interval.
C12_HeartbeatSurvivesFailure ==
    hbPc # "dead"

\* The sync broadcaster task has ended.
BroadcasterOver == syncPc \in {"finished", "dead"}

\* C13: once the shutdown signal is raised, every spawned task eventually
\* ends; here for the sync broadcaster, which waits on the ingress channel.
C13_ShutdownEndsTasks ==
    shutdown ~> BroadcasterOver

\* C14: an operation of library L is delivered only to peers that are
\* members of L.
C14_LibraryScoped ==
    lastFan.src = "sync" =>
        \A p \in lastFan.delivered : OpLibOf(lastFan.payload) \in PeerLibraries(p)

\* C15: the metadata closure returns the display name the configuration
\* holds at the time of the call.
C15_MetadataFromConfig ==
    lastMeta.provided => lastMeta.name = lastMeta.cfg


\* The replies the closure has returned, on any stream.
Replies ==
    UNION {{streams[s].replies[i] : i \in DOMAIN streams[s].replies} : s \in Streams}

\* Requests and operations come back from the wire as they went on it: every
\* Request through the codec, and the item the broadcaster is sending from
\* the payload it handed to manager.broadcast.
RequestsAndOpsRoundTrip ==
    /\ \A r \in Requests :
          DecodeRequest(EncodeRequest(r)) = [ok |-> TRUE, val |-> r]
    /\ syncPc = "sending" =>
          /\ OpCalls # {}
          /\ \A i \in OpCalls :
                (\A j \in OpCalls : j <= i) =>
                    DecodeOp(broadcasts[i]) = [ok |-> TRUE, val |-> syncOp]

C17_EmptyIffNone ==
    /\ \A rep \in Replies : (rep.bytes = <<>>) <=> (rep.resp = RespNone)
    /\ \A s \in Streams :
          (streams[s].pc = "returned" /\ streams[s].req = Ping)
             => streams[s].replies[1].bytes = <<>>

\* A Ping was answered with the empty payload and a library query with a
\* non-empty one.
C17_Witness ==
    /\ \E s \in Streams :
          /\ streams[s].pc = "returned" /\ streams[s].req = Ping
          /\ streams[s].replies[1].bytes = <<>>
    /\ \E s \in Streams :
          /\ streams[s].pc = "returned" /\ streams[s].req.tag = "GetLibrary"
          /\ streams[s].replies[1].bytes # <<>>

\* C18: the payload the broadcaster hands to manager.broadcast when it takes
\* an item from the ingress channel is the encoding of that (library id,
\* operation) pair: it decodes to the pair, library id included, unchanged.
C18_PairEncoded ==
    [][Len(p2p_rx') < Len(p2p_rx) =>
          /\ Len(broadcasts') = Len(broadcasts) + 1
          /\ SubSeq(broadcasts', 1, Len(broadcasts)) = broadcasts
          /\ DecodeOp(broadcasts'[Len(broadcasts')]) = [ok |-> TRUE, val |-> Head(p2p_rx)]
          /\ OpLibOf(broadcasts'[Len(broadcasts')]) = Head(p2p_rx)[1]]_vars

\* Operations of two different libraries have been handed to manager.broadcast.
C18_Witness ==
    \E i, j \in OpCalls : OpLibOf(broadcasts[i]) # OpLibOf(broadcasts[j])

\* The time of the latest Ping broadcast.
LastPing == pingTimes[Len(pingTimes)]

\* C19: the first Ping is broadcast no earlier than the grace period plus one
\* interval after the task started, two consecutive Pings are at least one
\* interval apart, and while the task sleeps its next Ping is due one interval
\* after the latest one returned, never later than one interval from now.
C19_PingCadence ==
    /\ \A i \in DOMAIN pingTimes :
          /\ pingTimes[i] >= hbStart + GraceTicks + i * IntervalTicks
          /\ i > 1 => pingTimes[i] >= pingTimes[i - 1] + IntervalTicks
    /\ hbPc = "sleep" =>
          /\ hbWake <= now + IntervalTicks
          /\ hbWake >= hbStart + GraceTicks + IntervalTicks
          /\ pingTimes # <<>> => hbWake >= LastPing + IntervalTicks
    /\ hbPc \in {"spawned", "grace"} => pingTimes = <<>>

\* Two Pings have been broadcast and the task is running.
C19_Witness ==
    /\ Len(pingTimes) >= 2
    /\ hbPc \in {"sleep", "sending"}

\* The operation payloads handed to manager.broadcast, in order.
HandedOps == SelectSeq(broadcasts, IsOpPayload)

\* C20: the operations handed to manager.broadcast are exactly the ones taken
\* from the ingress channel, in order and once each: hand-over i is operation
\* i of the producer's numbering, as many were handed over as were dequeued,
\* and what is still queued follows on without a gap.
C20_HandedIsDequeued ==
    /\ Len(HandedOps) = produced - Len(p2p_rx)
    /\ \A i \in DOMAIN HandedOps : OpIdOf(HandedOps[i]) = i
    /\ \A i \in DOMAIN p2p_rx : p2p_rx[i][2] = Len(HandedOps) + i
    /\ \A i, j \in OpCalls : i # j => broadcasts[i] # broadcasts[j]

\* Every operation the producer made in the run has been handed over.
C20_Witness ==
    /\ Len(HandedOps) = MaxOps
    /\ produced = MaxOps

====
